---------------------------- MODULE Spec2Model ----------------------------
(***************************************************************************)
(* Huffman compressor (huff) and decompressor (puff) of pchapin/huffman.   *)
(*                                                                         *)
(* The model follows the C++ edition (src/Cpp); the C edition (src/C) has  *)
(* the same CodeTree algorithms line for line.  One behaviour is one run   *)
(* of huff on an input file followed by a run of puff on the file huff     *)
(* wrote, or one run of puff on a compressed file that came from elsewhere *)
(* (any header, any bit body).                                             *)
(*                                                                         *)
(* The arena `nodes` holds the array leaves[] (ids 0..NSym-1, the id of a  *)
(* leaf is its byte value, as in `current - tree->leaves`) followed by the *)
(* heap nodes of build_tree in allocation order.  The alphabet of the      *)
(* program has 256 symbols; the model has NSym of them.                    *)
(*                                                                         *)
(* Not modelled: compute_probabilities (it writes only P and sorted[],     *)
(* which nothing else reads), display_codes, the progress printing and the *)
(* "ENTER to continue" pauses.                                             *)
(***************************************************************************)
EXTENDS Integers, Sequences, FiniteSets, TLC

\* ------------------------------------------------------------------ bounds
\* Size of the alphabet (256 in the program).
NSym == 5
\* Longest input file given to huff, in bytes.
MaxLen == 3
\* Largest total of the counts in the header of a file puff did not get
\* from huff.
MaxTotal == 2
\* Longest bit body of a file puff did not get from huff.
MaxBits == 3

\* Largest count of a byte value in the headers of CountHeaders.
MaxCount == 3

\* --------------------------------------------------------------- constants
\* nullptr, as an arena index.
NULL == -1
\* LONG_MAX of <limits.h>, here the one of a 32-bit long.
LONG_MAX == 2147483647
\* Bits in one byte of the bit file: close_bit pads the last byte.
BitsPerByte == 8

Symbols == 0 .. NSym - 1
Bits == {0, 1}
\* An indeterminate int: in and out of the range of actives[].
Garbage == {-1, 0}

BoundedSeq(S, n) == UNION {[1 .. k -> S] : k \in 0 .. n}

VARIABLES
  pc,             \* position in main of huff / puff
  return_value,   \* return_value of main
  diag,           \* the error message main or its callee printed, if any
  input,          \* huff: content of the input file
  inpos,          \* huff: position of infile
  nodes,          \* CodeTree: leaves[] and the heap nodes
  actives,        \* CodeTree::actives
  root,           \* CodeTree::root
  codes,          \* CodeTree::codes
  item_count,     \* build_tree: item_count
  smallest,       \* build_tree: smallest
  next_smallest,  \* build_tree: next_smallest
  file,           \* the compressed file: header, bit body, padding
  bitpos,         \* puff: position of the bit file
  current,        \* Walker::current
  count,          \* decompress: count
  total_count,    \* decompress: total_count
  outfile,        \* puff: state and content of the output file
  huff            \* the CodeTree huff ended with, kept for comparison

vars == << pc, return_value, diag, input, inpos, nodes, actives, root, codes,
           item_count, smallest, next_smallest, file, bitpos, current,
           count, total_count, outfile, huff >>

treeVars == << nodes, actives, root, codes, item_count, smallest, next_smallest >>
puffVars == << bitpos, current, count, total_count, outfile >>

\* ---------------------------------------------------------------- CodeTree

\* struct Node.
Node(c, p, m, l) == [count |-> c, parent |-> p, more |-> m, less |-> l]

\* CodeTree::CodeTree: the leaves, all counts 0, no links.
InitLeaves == [i \in Symbols |-> Node(0, NULL, NULL, NULL)]

\* CodeTree::CodeTree: actives[i] = &leaves[i].
InitActives == [i \in Symbols |-> i]

\* CodeTree::CodeTree: codes[] are empty strings.
InitCodes == [i \in Symbols |-> << >>]

\* CodeTree::increment.
increment(nd, byte_value) ==
  [nd EXCEPT ![byte_value].count = nd[byte_value].count + 1]

\* CodeTree::set_count, for every byte value (the loop of puff's analysis).
set_counts(nd, counts) ==
  [n \in DOMAIN nd |-> IF n \in Symbols THEN [nd[n] EXCEPT !.count = counts[n]] ELSE nd[n]]

\* CodeTree::get_count.
get_count(nd, byte_value) == nd[byte_value].count

RECURSIVE SumCounts(_, _)
SumCounts(nd, S) ==
  IF S = {} THEN 0
  ELSE LET i == CHOOSE x \in S : TRUE IN nd[i].count + SumCounts(nd, S \ {i})

\* CodeTree::get_count_total.
get_count_total(nd) == SumCounts(nd, Symbols)

\* The first test of find_smallest written with <=.
IsNewSmallestOrEqual(c, smallest_value) == c <= smallest_value

\* find_smallest: "if this element is smaller than anything we've seen so far".
IsNewSmallest(c, smallest_value) == c < smallest_value

\* find_smallest without its second test: next_smallest_index is only ever
\* set from the old smallest_index.
IsNewNextSmallestNever(c, next_smallest_value) == FALSE

\* find_smallest: "if this element is smaller than the old next to smallest".
IsNewNextSmallest(c, next_smallest_value) == c < next_smallest_value

\* find_smallest: the loop over actives[], from `index` on.
RECURSIVE scan(_, _, _, _, _, _, _)
scan(act, nd, index, sv, si, nv, ni) ==
  IF index = NSym THEN [smallest |-> si, next_smallest |-> ni]
  ELSE IF act[index] = NULL THEN scan(act, nd, index + 1, sv, si, nv, ni)
  ELSE LET c == nd[act[index]].count IN
       IF IsNewSmallest(c, sv) THEN scan(act, nd, index + 1, c, index, sv, si)
       ELSE IF IsNewNextSmallest(c, nv) THEN scan(act, nd, index + 1, sv, si, c, index)
       ELSE scan(act, nd, index + 1, sv, si, nv, ni)

\* CodeTree::find_smallest.  The two index arguments are references: they
\* come in with whatever the caller's variables hold.
find_smallest(act, nd, smallest_index, next_smallest_index) ==
  scan(act, nd, 0, LONG_MAX, smallest_index, LONG_MAX, next_smallest_index)

\* The count of the new node taken from one child only.
NewCountOfSmallest(nd, act, s, n) == nd[act[s]].count

\* build_tree: count of the new node.
NewCount(nd, act, s, n) == nd[act[s]].count + nd[act[n]].count

\* new_node->less pointed at the next smallest node.
LessSlotIsNextSmallest(nd, act, s, n) == n

\* build_tree: slot whose node becomes new_node->less.
LessSlot(nd, act, s, n) ==
  IF nd[act[s]].count # nd[act[n]].count THEN s
  ELSE IF s < n THEN s ELSE n

\* new_node->more pointed at the smallest node, less at the other one.
MoreSlotIsSmallest(nd, act, s, n) == s

\* build_tree: slot whose node becomes new_node->more.
MoreSlot(nd, act, s, n) ==
  IF nd[act[s]].count # nd[act[n]].count THEN n
  ELSE IF s < n THEN n ELSE s

\* The loop body without the two assignments to parent.
MergeNodesNoParent(nd, act, s, n, new_node) ==
  [x \in DOMAIN nd \cup {new_node} |->
     IF x = new_node
     THEN Node(nd[act[s]].count + nd[act[n]].count, NULL, act[n], act[s])
     ELSE nd[x]]

\* build_tree: the nodes after one pass of the loop body.
MergeNodes(nd, act, s, n, new_node) ==
  [x \in DOMAIN nd \cup {new_node} |->
     IF x = new_node
     THEN Node(NewCount(nd, act, s, n), NULL,
               act[MoreSlot(nd, act, s, n)], act[LessSlot(nd, act, s, n)])
     ELSE IF x = act[s] \/ x = act[n] THEN [nd[x] EXCEPT !.parent = new_node]
     ELSE nd[x]]

\* The new node always stored in the slot of the smallest node.
MergeActivesAtSmallest(act, s, n, new_node) ==
  [act EXCEPT ![n] = NULL, ![s] = new_node]

\* The adjustment of actives[] without clearing the second slot.
MergeActivesNoClear(act, s, n, new_node) ==
  IF s < n THEN [act EXCEPT ![s] = new_node] ELSE [act EXCEPT ![n] = new_node]

\* build_tree: actives[] after one pass of the loop body.
MergeActives(act, s, n, new_node) ==
  IF s < n THEN [act EXCEPT ![s] = new_node, ![n] = NULL]
  ELSE [act EXCEPT ![n] = new_node, ![s] = NULL]

\* The indices find_smallest left can be used as build_tree uses them.
Usable(act, s, n) ==
  /\ s \in Symbols /\ n \in Symbols
  /\ act[s] # NULL /\ act[n] # NULL

\* build_codes: the loop from a leaf towards the root.
RECURSIVE walk_up(_, _, _)
walk_up(nd, cur, acc) ==
  IF nd[cur].parent = NULL THEN acc
  ELSE LET temp == cur
           up   == nd[cur].parent
           a1   == IF nd[up].more = temp THEN Append(acc, "1") ELSE acc
           a2   == IF nd[up].less = temp THEN Append(a1, "0") ELSE a1
       IN walk_up(nd, up, a2)

\* std::reverse.
reverse(s) == [i \in 1 .. Len(s) |-> s[Len(s) + 1 - i]]

\* build_codes without the call of reverse.
build_code_unreversed(nd, index) == walk_up(nd, index, << >>)

\* build_codes: the code of one leaf.
build_code(nd, index) == reverse(walk_up(nd, index, << >>))

\* CodeTree::get_code.
get_code(cds, byte_value) == cds[byte_value]

\* The test of the digit the other way round.
digit_bit_inverted(digit) == IF digit = "0" THEN 1 ELSE 0

\* compress: the bit put for one digit of a code.
digit_bit(digit) == IF digit = "0" THEN 0 ELSE 1

\* compress: the bits put for one input byte.
put_code(cds, ch) ==
  LET code == get_code(cds, ch) IN [i \in 1 .. Len(code) |-> digit_bit(code[i])]

\* BitFile::close_bit: number of bits added to fill the last byte.
PadLen(n) == (BitsPerByte - (n % BitsPerByte)) % BitsPerByte

\* process_bit with the two children exchanged.
process_bit_swapped(nd, cur, bit_value) ==
  IF bit_value = 1 THEN nd[cur].less ELSE nd[cur].more

\* Walker::process_bit.
process_bit(nd, cur, bit_value) ==
  LET c1 == IF bit_value = 1 THEN nd[cur].more ELSE cur
  IN  IF bit_value = 0 THEN nd[c1].less ELSE c1

\* Walker::code_finished: the returned byte value, -1 while inside the tree.
code_finished(nd, cur) == IF nd[cur].more # NULL THEN -1 ELSE cur

\* code_finished without the reset of current.
code_finished_current_kept(nd, cur, rt) == cur

\* Walker::code_finished: current after the call.
code_finished_current(nd, cur, rt) == IF nd[cur].more # NULL THEN cur ELSE rt

\* decompress: "if( ++count == total_count ) break".
StopDecoding(cnt, total) == cnt = total

\* ------------------------------------------------------------------- files

NoFile == [state |-> "absent", header |-> [i \in Symbols |-> 0], bits |-> << >>, pad |-> 0]

NoHuff == [ran |-> FALSE, nodes |-> InitLeaves, root |-> NULL, codes |-> InitCodes]

NoOut == [state |-> "none", bytes |-> << >>]

\* The input of the worked example of the specification: A A A A A A B B B C C.
Scenario(a, b, c) == << a, a, a, a, a, a, b, b, b, c, c >>

\* A, B and C are byte values in this order; any three stand for them.
ABC == {t \in Symbols \X Symbols \X Symbols : t[1] < t[2] /\ t[2] < t[3]}

ScenarioInputs == {Scenario(t[1], t[2], t[3]) : t \in ABC}

Inputs == BoundedSeq(Symbols, MaxLen) \cup ScenarioInputs

RECURSIVE Total(_, _)
Total(h, S) ==
  IF S = {} THEN 0
  ELSE LET i == CHOOSE x \in S : TRUE IN h[i] + Total(h, S \ {i})

ForeignHeaders == {h \in [Symbols -> 0 .. MaxTotal] : Total(h, Symbols) <= MaxTotal}

ForeignFiles ==
  {[state |-> "closed", header |-> h, bits |-> b, pad |-> 0] :
     h \in ForeignHeaders, b \in BoundedSeq(Bits, MaxBits)}

\* -------------------------------------------------------------------- Init

InitTree ==
  /\ nodes = InitLeaves
  /\ actives = InitActives
  /\ root = NULL
  /\ codes = InitCodes
  /\ item_count = NSym
  /\ smallest \in Garbage
  /\ next_smallest \in Garbage

InitPuff ==
  /\ bitpos = 0
  /\ current = NULL
  /\ count = 0
  /\ total_count = 0
  /\ outfile = NoOut

Init ==
  /\ return_value = 0
  /\ diag = "none"
  /\ inpos = 0
  /\ InitTree
  /\ InitPuff
  /\ huff = NoHuff
  /\ \/ /\ pc = "huff_main"
        /\ input \in Inputs
        /\ file = NoFile
     \/ /\ pc = "puff_main"
        /\ input = << >>
        /\ file \in ForeignFiles

\* Headers that hold LONG_MAX, the starting value of smallest_value and
\* next_smallest_value in find_smallest, as the count of one or two byte
\* values: read_bitheader copies 256 raw longs, whatever they are.
SentinelHeaders ==
  {h \in [Symbols -> {0, LONG_MAX}] :
     Cardinality({s \in Symbols : h[s] = LONG_MAX}) \in 1 .. 2}

SentinelFiles ==
  {[state |-> "closed", header |-> h, bits |-> b, pad |-> 0] :
     h \in SentinelHeaders, b \in BoundedSeq(Bits, MaxBits)}

\* The runs of Init, and the runs of puff on a file with a sentinel header.
InitAnyHeader ==
  /\ return_value = 0
  /\ diag = "none"
  /\ inpos = 0
  /\ InitTree
  /\ InitPuff
  /\ huff = NoHuff
  /\ \/ /\ pc = "huff_main"
        /\ input \in Inputs
        /\ file = NoFile
     \/ /\ pc = "puff_main"
        /\ input = << >>
        /\ file \in ForeignFiles \cup SentinelFiles

\* Headers with any counts up to MaxCount, in files without a body.
CountHeaders == [Symbols -> 0 .. MaxCount]

CountFiles ==
  {[state |-> "closed", header |-> h, bits |-> << >>, pad |-> 0] :
     h \in CountHeaders}

\* The runs of Init, and the runs of puff on a file of CountFiles.
InitAnyCounts ==
  /\ return_value = 0
  /\ diag = "none"
  /\ inpos = 0
  /\ InitTree
  /\ InitPuff
  /\ huff = NoHuff
  /\ \/ /\ pc = "huff_main"
        /\ input \in Inputs
        /\ file = NoFile
     \/ /\ pc = "puff_main"
        /\ input = << >>
        /\ file \in ForeignFiles \cup CountFiles

\* -------------------------------------------------------------------- huff

\* main of huff: wrong number of arguments.
HuffUsageError ==
  /\ pc = "huff_main"
  /\ return_value' = 1
  /\ pc' = "huff_exit"
  /\ UNCHANGED << input, inpos, treeVars, file, puffVars, huff >>
  /\ diag' = "usage"

\* main of huff: setvbuf of the input file fails.
HuffSetvbufFail ==
  /\ pc = "huff_main"
  /\ return_value' = 1
  /\ pc' = "huff_exit"
  /\ UNCHANGED << input, inpos, treeVars, file, puffVars, huff >>
  /\ diag' = "setvbuf"

\* main of huff: fopen of the input file fails.
HuffOpenFail ==
  /\ pc = "huff_main"
  /\ return_value' = 1
  /\ pc' = "huff_exit"
  /\ UNCHANGED << input, inpos, treeVars, file, puffVars, huff >>
  /\ diag' = "open_input"

\* main of huff: the input file is open, analysis starts.
HuffOpen ==
  /\ pc = "huff_main"
  /\ pc' = "huff_analysis"
  /\ UNCHANGED << return_value, input, inpos, treeVars, file, puffVars, huff >>
  /\ UNCHANGED diag

\* analysis of huff: one byte read and counted.
AnalysisByte ==
  /\ pc = "huff_analysis"
  /\ inpos < Len(input)
  /\ nodes' = increment(nodes, input[inpos + 1])
  /\ inpos' = inpos + 1
  /\ UNCHANGED << pc, return_value, input, actives, root, codes, item_count,
                  smallest, next_smallest, file, puffVars, huff >>
  /\ UNCHANGED diag

\* analysis of huff: getc returns EOF; main goes on to build_tree.
AnalysisEOF ==
  /\ pc = "huff_analysis"
  /\ inpos = Len(input)
  /\ pc' = "huff_build_tree"
  /\ UNCHANGED << return_value, input, inpos, treeVars, file, puffVars, huff >>
  /\ UNCHANGED diag

\* ---------------------------------------------------------------- CodeTree

\* build_tree: one pass of the loop body.  Indices that name no active node
\* make the pass read through a wild or null pointer: the run is lost.
BuildTreeMerge ==
  /\ pc \in {"huff_build_tree", "puff_build_tree"}
  /\ item_count > 1
  /\ LET r == find_smallest(actives, nodes, smallest, next_smallest)
         s == r.smallest
         n == r.next_smallest
         new_node == 2 * NSym - item_count
     IN  /\ smallest' = s
         /\ next_smallest' = n
         /\ IF Usable(actives, s, n)
            THEN /\ nodes' = MergeNodes(nodes, actives, s, n, new_node)
                 /\ actives' = MergeActives(actives, s, n, new_node)
                 /\ root' = new_node
                 /\ item_count' = item_count - 1
                 /\ pc' = pc
            ELSE /\ pc' = "crash"
                 /\ UNCHANGED << nodes, actives, root, item_count >>
  /\ UNCHANGED << return_value, input, inpos, codes, file, puffVars, huff >>
  /\ UNCHANGED diag

\* build_tree: the loop ends; build_codes runs over every leaf; huff then
\* rewinds its input file.
BuildCodes ==
  /\ pc \in {"huff_build_tree", "puff_build_tree"}
  /\ item_count <= 1
  /\ codes' = [index \in Symbols |-> build_code(nodes, index)]
  /\ pc' = IF pc = "huff_build_tree" THEN "huff_compress" ELSE "puff_decompress"
  /\ inpos' = IF pc = "huff_build_tree" THEN 0 ELSE inpos
  /\ UNCHANGED << return_value, input, nodes, actives, root, item_count,
                  smallest, next_smallest, file, puffVars, huff >>
  /\ UNCHANGED diag

\* -------------------------------------------------------------------- huff

\* compress: open_bit of the output file fails; compress returns, main
\* returns return_value as it is.
CompressOpenFail ==
  /\ pc = "huff_compress"
  /\ file.state = "absent"
  /\ pc' = "huff_exit"
  /\ UNCHANGED << return_value, input, inpos, treeVars, file, puffVars, huff >>
  /\ diag' = "open_output"

\* compress: the output file is open and the header written.
CompressOpen ==
  /\ pc = "huff_compress"
  /\ file.state = "absent"
  /\ file' = [state |-> "open",
              header |-> [i \in Symbols |-> get_count(nodes, i)],
              bits |-> << >>, pad |-> 0]
  /\ UNCHANGED << pc, return_value, input, inpos, treeVars, puffVars, huff >>
  /\ UNCHANGED diag

\* compress: one byte read and its code put.
CompressByte ==
  /\ pc = "huff_compress"
  /\ file.state = "open"
  /\ inpos < Len(input)
  /\ file' = [file EXCEPT !.bits = file.bits \o put_code(codes, input[inpos + 1])]
  /\ inpos' = inpos + 1
  /\ UNCHANGED << pc, return_value, input, treeVars, puffVars, huff >>
  /\ UNCHANGED diag

\* compress: getc returns EOF; close_bit fills the last byte; main returns.
CompressEOF ==
  /\ pc = "huff_compress"
  /\ file.state = "open"
  /\ inpos = Len(input)
  /\ file' = [file EXCEPT !.state = "closed", !.pad = PadLen(Len(file.bits))]
  /\ pc' = "huff_exit"
  /\ UNCHANGED << return_value, input, inpos, treeVars, puffVars, huff >>
  /\ UNCHANGED diag

\* -------------------------------------------------------------------- puff

\* puff is started on the file huff wrote: a new process, a new CodeTree.
RunPuff ==
  /\ pc = "huff_exit"
  /\ file.state = "closed"
  /\ huff' = [ran |-> TRUE, nodes |-> nodes, root |-> root, codes |-> codes]
  /\ pc' = "puff_main"
  /\ return_value' = 0
  /\ nodes' = InitLeaves
  /\ actives' = InitActives
  /\ root' = NULL
  /\ codes' = InitCodes
  /\ item_count' = NSym
  /\ smallest' \in Garbage
  /\ next_smallest' \in Garbage
  /\ UNCHANGED << input, inpos, file, puffVars >>
  /\ diag' = "none"

\* main of puff: wrong number of arguments.
PuffUsageError ==
  /\ pc = "puff_main"
  /\ return_value' = 1
  /\ pc' = "puff_exit"
  /\ UNCHANGED << input, inpos, treeVars, file, puffVars, huff >>
  /\ diag' = "usage"

\* main of puff: open_bit of the input file fails.
PuffOpenFail ==
  /\ pc = "puff_main"
  /\ return_value' = 1
  /\ pc' = "puff_exit"
  /\ UNCHANGED << input, inpos, treeVars, file, puffVars, huff >>
  /\ diag' = "open_input"

\* main of puff: the file is open; analysis reads the header into the tree.
PuffAnalysis ==
  /\ pc = "puff_main"
  /\ nodes' = set_counts(nodes, file.header)
  /\ pc' = "puff_build_tree"
  /\ UNCHANGED << return_value, input, inpos, actives, root, codes, item_count,
                  smallest, next_smallest, file, puffVars, huff >>
  /\ UNCHANGED diag

\* decompress: fopen of the output file fails; decompress returns, main
\* returns return_value as it is.
DecompressOpenFail ==
  /\ pc = "puff_decompress"
  /\ outfile.state = "none"
  /\ total_count' = get_count_total(nodes)
  /\ pc' = "puff_exit"
  /\ UNCHANGED << return_value, input, inpos, treeVars, file, bitpos, current,
                  count, outfile, huff >>
  /\ diag' = "open_output"

\* decompress: the output file is open, the Walker stands at the root.
DecompressOpen ==
  /\ pc = "puff_decompress"
  /\ outfile.state = "none"
  /\ total_count' = get_count_total(nodes)
  /\ outfile' = [state |-> "open", bytes |-> << >>]
  /\ current' = root
  /\ count' = 0
  /\ UNCHANGED << pc, return_value, input, inpos, treeVars, file, bitpos, huff >>
  /\ UNCHANGED diag

\* decompress: one pass of the loop: a bit read, the Walker moved, a byte
\* written when a leaf is reached.  The bits of the padding have no
\* specified value.  A Walker moved to nullptr makes code_finished read
\* through it: the run is lost.
DecompressBit ==
  /\ pc = "puff_decompress"
  /\ outfile.state = "open"
  /\ bitpos < Len(file.bits) + file.pad
  /\ \E ch \in (IF bitpos < Len(file.bits) THEN {file.bits[bitpos + 1]} ELSE Bits) :
       LET moved == process_bit(nodes, current, ch) IN
         /\ bitpos' = bitpos + 1
         /\ IF moved = NULL
            THEN /\ pc' = "crash"
                 /\ current' = moved
                 /\ UNCHANGED << count, outfile, return_value >>
            ELSE LET byte_value == code_finished(nodes, moved) IN
                 /\ current' = code_finished_current(nodes, moved, root)
                 /\ IF byte_value # -1
                    THEN /\ outfile' = [state |-> IF StopDecoding(count + 1, total_count)
                                                  THEN "closed" ELSE "open",
                                        bytes |-> Append(outfile.bytes, byte_value)]
                         /\ count' = count + 1
                         /\ pc' = IF StopDecoding(count + 1, total_count)
                                  THEN "puff_exit" ELSE pc
                    ELSE UNCHANGED << outfile, count, pc >>
                 /\ UNCHANGED return_value
  /\ UNCHANGED << input, inpos, treeVars, file, total_count, huff >>
  /\ UNCHANGED diag

\* decompress: get_bit returns EOF; the output file is closed, main returns.
DecompressEOF ==
  /\ pc = "puff_decompress"
  /\ outfile.state = "open"
  /\ bitpos = Len(file.bits) + file.pad
  /\ outfile' = [outfile EXCEPT !.state = "closed"]
  /\ pc' = "puff_exit"
  /\ UNCHANGED << return_value, input, inpos, treeVars, file, bitpos, current,
                  count, total_count, huff >>
  /\ UNCHANGED diag

\* -------------------------------------------------------------------- Next

Next ==
  \/ HuffUsageError
  \/ HuffOpenFail
  \/ HuffSetvbufFail
  \/ HuffOpen
  \/ AnalysisByte
  \/ AnalysisEOF
  \/ BuildTreeMerge
  \/ BuildCodes
  \/ CompressOpenFail
  \/ CompressOpen
  \/ CompressByte
  \/ CompressEOF
  \/ RunPuff
  \/ PuffUsageError
  \/ PuffOpenFail
  \/ PuffAnalysis
  \/ DecompressOpenFail
  \/ DecompressOpen
  \/ DecompressBit
  \/ DecompressEOF

\* huff on an input, then puff on its file, or puff on a foreign file: all
\* counts are far below LONG_MAX.
Spec == Init /\ [][Next]_vars

\* The same, and puff on a file whose header holds LONG_MAX.
\* The same as Spec, and puff on headers with any counts up to MaxCount.
SpecAnyCounts == InitAnyCounts /\ [][Next]_vars

SpecAnyHeader == InitAnyHeader /\ [][Next]_vars

\* ------------------------------------------------------------------ claims

\* puff has decompressed the file huff wrote from `input`.
RoundTripDone == huff.ran /\ pc = "puff_exit" /\ outfile.state = "closed"

\* C1: round trip.  For every input x of huff (the empty one and those of a
\* single byte value included), puff run on the file huff wrote (header,
\* codes of x in order, padding) never goes wrong and writes exactly x.
C1_RoundTrip ==
  huff.ran => /\ pc # "crash"
              /\ (RoundTripDone => outfile.bytes = input)

C1_Witness ==
  /\ RoundTripDone
  /\ Len(input) = MaxLen
  /\ Cardinality({input[i] : i \in DOMAIN input}) > 1
  /\ outfile.bytes = input

\* The symbols other than A, B, C in the worked example.
Others(t) == Symbols \ {t[1], t[2], t[3]}

\* The lowest index of a set of indices.
Lowest(S) == CHOOSE x \in S : \A y \in S : x <= y

\* The histogram of the worked example: A=6, B=3, C=2, every other symbol 0,
\* held by the tree of huff or of puff.
IsScenario(t) ==
  /\ input = Scenario(t[1], t[2], t[3])
  /\ nodes[t[1]].count = 6
  /\ nodes[t[2]].count = 3
  /\ nodes[t[3]].count = 2
  /\ \A z \in Others(t) : nodes[z].count = 0

\* The first pass of build_tree has just been made.
AfterFirstMerge ==
  pc \in {"huff_build_tree", "puff_build_tree"} /\ item_count = NSym - 1

\* build_codes has run.
CodesBuilt == pc \in {"huff_compress", "huff_exit", "puff_decompress", "puff_exit"}
              /\ item_count = 1

\* C2 as stated: in the worked example the first merge takes C and B, the
\* codes are A="1", B="01", C="00", and the 11 bytes are encoded as the 16
\* bits 1 1 1 1 1 1 01 01 01 00 00.
C2_AsStated ==
  \A t \in ABC : IsScenario(t) =>
    /\ AfterFirstMerge => {smallest, next_smallest} = {t[3], t[2]}
    /\ CodesBuilt => /\ codes[t[1]] = << "1" >>
                     /\ codes[t[2]] = << "0", "1" >>
                     /\ codes[t[3]] = << "0", "0" >>
    /\ (huff.ran \/ file.state = "closed") =>
         file.bits = << 1, 1, 1, 1, 1, 1, 0, 1, 0, 1, 0, 1, 0, 0, 0, 0 >>

\* C2, amended: in the worked example the zero-count symbols are merged
\* first (the first merge takes the two lowest-indexed of them), the codes
\* are A="1", B="01", C="001", every other symbol has a code that starts
\* with 000, and the 11 bytes are encoded as the 18 bits
\* 1 1 1 1 1 1 01 01 01 001 001.
C2_Scenario ==
  \A t \in ABC : IsScenario(t) =>
    /\ AfterFirstMerge =>
         /\ smallest = Lowest(Others(t))
         /\ next_smallest = Lowest(Others(t) \ {smallest})
    /\ CodesBuilt => /\ codes[t[1]] = << "1" >>
                     /\ codes[t[2]] = << "0", "1" >>
                     /\ codes[t[3]] = << "0", "0", "1" >>
                     /\ \A z \in Others(t) :
                          SubSeq(codes[z], 1, 3) = << "0", "0", "0" >>
    /\ (huff.ran \/ file.state = "closed") =>
         file.bits = << 1, 1, 1, 1, 1, 1, 0, 1, 0, 1, 0, 1, 0, 0, 1, 0, 0, 1 >>

C2_Witness ==
  \E t \in ABC : IsScenario(t) /\ RoundTripDone /\ Len(file.bits) > Len(input)

\* The decode loop of puff has been entered.
Decoding == pc \in {"puff_decompress", "puff_exit"} /\ outfile.state # "none"

\* C3: decoder stop rule.  For every header with total N >= 0 and every
\* bit body, the decode loop never writes more than N bytes, and it has
\* ended once N bytes are written.
C3_StopRule ==
  Decoding => /\ Len(outfile.bytes) <= total_count
              /\ (Len(outfile.bytes) = total_count /\ count > 0 => pc = "puff_exit")

\* build_tree has ended (item_count is set again when puff starts).
TreeBuilt == item_count = 1

IsPrefix(p, q) == Len(p) <= Len(q) /\ SubSeq(q, 1, Len(p)) = p

RECURSIVE Reach(_, _)
Reach(nd, x) ==
  IF x = NULL THEN {}
  ELSE {x} \cup Reach(nd, nd[x].more) \cup Reach(nd, nd[x].less)

IsLeaf(nd, x) == nd[x].more = NULL /\ nd[x].less = NULL

ParentsOf(nd, S, x) == {q \in S : nd[q].more = x \/ nd[q].less = x}

SingleNonZero(s) ==
  /\ nodes[s].count > 0
  /\ \A z \in Symbols \ {s} : nodes[z].count = 0

Repeat(x, n) == [i \in 1 .. n |-> x]

\* huff has written the whole file.
HuffWrote == huff.ran \/ (pc = "huff_exit" /\ file.state = "closed")

C8_Determinism ==
  huff.ran =>
    /\ pc # "crash"
    /\ TreeBuilt => (nodes = huff.nodes /\ root = huff.root)
    /\ CodesBuilt => codes = huff.codes

C8_Witness ==
  /\ huff.ran /\ CodesBuilt /\ codes = huff.codes /\ nodes = huff.nodes
  /\ \E a \in Symbols : \E b \in Symbols \ {a} :
        nodes[a].count = nodes[b].count /\ nodes[a].count > 0

\* The counts of the nodes held by the non-empty slots of actives[].
ActiveSum == SumCounts(nodes, {actives[i] : i \in {j \in Symbols : actives[j] # NULL}})

Truncated ==
  /\ pc = "puff_exit"
  /\ outfile.state = "closed"
  /\ bitpos = Len(file.bits) + file.pad
  /\ count < total_count

\* C10: truncated stream.  When the bits end before total_count bytes are
\* written, puff reports a decode failure and does not return 0.
C10_TruncatedFails == Truncated => (return_value # 0 /\ diag # "none")

\* main of huff or of puff has returned.
Exited == pc \in {"huff_exit", "puff_exit"}

\* C11: exit code.  huff and puff return 1 on a usage error and on every
\* failure to open a file, the output file as well as the input file; they
\* return 0 only when no error was reported.
C11_ExitCode ==
  Exited => /\ diag \in {"usage", "open_input", "open_output"} => return_value = 1
            /\ return_value = 0 => diag = "none"

\* The non-empty slots of actives[].
ActiveSlots(act) == {i \in Symbols : act[i] # NULL}

\* The lowest-indexed slot of S among those of the least count.
LowestMin(nd, act, S) ==
  CHOOSE i \in S : \A j \in S :
    \/ nd[act[i]].count < nd[act[j]].count
    \/ (nd[act[i]].count = nd[act[j]].count /\ i <= j)

\* A pass of build_tree has been made and no later one undone its indices.
AfterMerge == pc \in {"huff_build_tree", "puff_build_tree"} /\ item_count < NSym

C13_ChildAssignment ==
  [][(BuildTreeMerge /\ pc' # "crash") =>
       LET s  == smallest'
           n  == next_smallest'
           l  == nodes'[root'].less
           m  == nodes'[root'].more
           cs == nodes[actives[s]].count
           cn == nodes[actives[n]].count
       IN  /\ nodes'[l].count <= nodes'[m].count
           /\ cs # cn => /\ {l, m} = {actives[s], actives[n]}
                         /\ nodes[l].count < nodes[m].count
           /\ cs = cn => /\ l = actives[IF s < n THEN s ELSE n]
                         /\ m = actives[IF s < n THEN n ELSE s]]_vars

C13_Witness ==
  /\ AfterMerge
  /\ root \notin Symbols
  /\ nodes[nodes[root].less].count < nodes[nodes[root].more].count
  /\ nodes[root].less \notin Symbols

RECURSIVE PathFromRoot(_, _, _)
PathFromRoot(nd, x, leaf) ==
  IF x = leaf THEN << >>
  ELSE IF x = NULL THEN << "?" >>
  ELSE IF leaf \in Reach(nd, nd[x].more)
       THEN << "1" >> \o PathFromRoot(nd, nd[x].more, leaf)
       ELSE << "0" >> \o PathFromRoot(nd, nd[x].less, leaf)

\* A Walker fed bits[i..]: process_bit, then code_finished, for each bit.
\* The results of code_finished are collected; -2 stands for a Walker that
\* left the tree.
RECURSIVE WalkerRun(_, _, _, _, _, _)
WalkerRun(nd, rt, cur, bits, i, res) ==
  IF i > Len(bits) THEN [current |-> cur, results |-> res]
  ELSE LET moved == process_bit(nd, cur, bits[i]) IN
       IF moved = NULL THEN [current |-> NULL, results |-> Append(res, -2)]
       ELSE WalkerRun(nd, rt, code_finished_current(nd, moved, rt), bits, i + 1,
                      Append(res, code_finished(nd, moved)))

RECURSIVE ClimbToTop(_, _, _)
ClimbToTop(nd, x, fuel) ==
  IF nd[x].parent = NULL THEN x
  ELSE IF fuel = 0 THEN NULL
  ELSE ClimbToTop(nd, nd[x].parent, fuel - 1)

\* C16: termination and totality.  build_tree never goes wrong; the number
\* of non-empty slots and item_count go down together, by one for each node
\* made, so that the loop ends after exactly NSym - 1 merges (255 in the
\* program) with one slot left; the loop of build_codes ends for every leaf:
\* its parent chain reaches the root in at most NSym - 1 steps.
C16_Termination ==
  /\ pc # "crash"
  /\ item_count \in 1 .. NSym
  /\ Cardinality(ActiveSlots(actives)) = item_count
  /\ Cardinality(DOMAIN nodes \ Symbols) = NSym - item_count
  /\ TreeBuilt => /\ Cardinality(DOMAIN nodes \ Symbols) = NSym - 1
                  /\ \A leaf \in Symbols : ClimbToTop(nodes, leaf, NSym - 1) = root

InDecodeLoop == pc = "puff_decompress" /\ outfile.state = "open"

\* C18: the Walker never follows a null pointer.  Before every call of
\* process_bit current is an internal node with two non-null children;
\* after it, for either bit, current is a node; code_finished gives a byte
\* value and resets current to root exactly when current is a leaf.
C18_WalkerSafe ==
  /\ outfile.state = "open" => pc # "crash"
  /\ InDecodeLoop =>
       /\ current \in DOMAIN nodes
       /\ nodes[current].more # NULL
       /\ nodes[current].less # NULL
       /\ \A b \in Bits :
            LET moved == process_bit(nodes, current, b) IN
              /\ moved \in DOMAIN nodes
              /\ code_finished_current(nodes, moved, root) = root <=> IsLeaf(nodes, moved)
              /\ code_finished(nodes, moved) # -1 <=> IsLeaf(nodes, moved)

C18_Witness ==
  /\ InDecodeLoop
  /\ count >= 1
  /\ bitpos < Len(file.bits)
  /\ current # root

WeightsBelowMax == \A x \in DOMAIN nodes : nodes[x].count < LONG_MAX

\* C20: on every call of find_smallest made by build_tree, all weights
\* being below LONG_MAX, the two
\* returned indices are distinct, lie in 0 .. NSym - 1 and name non-empty
\* slots; the value that smallest came in with, copied into
\* next_smallest_index at the first active slot, is overwritten before the
\* scan ends: the result is the same for every pair of incoming values.
C20_IndicesValid ==
  [][(BuildTreeMerge /\ WeightsBelowMax) =>
       /\ pc' # "crash"
       /\ smallest' # next_smallest'
       /\ {smallest', next_smallest'} \subseteq ActiveSlots(actives)
       /\ \A g1 \in Garbage \cup Symbols : \A g2 \in Garbage \cup Symbols :
            find_smallest(actives, nodes, g1, g2) =
              [smallest |-> smallest', next_smallest |-> next_smallest']]_vars

C20_Witness ==
  /\ pc \in {"huff_build_tree", "puff_build_tree"}
  /\ item_count = NSym - 1
  /\ smallest \in Symbols \ {0}
  /\ next_smallest \in Symbols \ {0}
  /\ smallest # next_smallest

\* C21: code lengths are monotone in the counts.  Once the codes are
\* built, for every pair of symbols a, b with count(a) > count(b) the code
\* of a is not longer than the code of b.
C21_LengthMonotone ==
  CodesBuilt =>
    \A a \in Symbols : \A b \in Symbols :
       nodes[a].count > nodes[b].count => Len(codes[a]) <= Len(codes[b])

C21_Witness ==
  /\ CodesBuilt
  /\ \E a \in Symbols : \E b \in Symbols : \E c \in Symbols :
        /\ nodes[a].count > nodes[b].count
        /\ nodes[b].count > nodes[c].count
        /\ nodes[c].count > 0
        /\ Len(codes[a]) < Len(codes[b])
        /\ Len(codes[b]) <= Len(codes[c])

=============================================================================
